---------------------------- MODULE Spec2Model ----------------------------
(***************************************************************************)
(* Model of day_01/src/main.rs: the fuel calculator of Advent of Code     *)
(* 2019, day 1.                                                            *)
(*                                                                         *)
(* Two state machines share this module.                                   *)
(*   Spec      main(): the embedded input text is split into lines, every  *)
(*             line is parsed into a Mass (a failure panics), then the two *)
(*             totals are summed item by item and printed; the second sum  *)
(*             calls total_fuel on every mass.                             *)
(*   FuelSpec  the methods Mass::fuel and Mass::total_fuel applied to one  *)
(*             mass.                                                       *)
(* The recursion of total_fuel is unfolded call by call in both.           *)
(*                                                                         *)
(* Mass and Fuel are newtypes over i64; a Mass or a Fuel is modelled by    *)
(* the i64 it wraps.  An i64 is its 64-bit two's complement pattern, held  *)
(* as four 16-bit limbs, the most significant first:                       *)
(*     <<a, b, c, d>>  is the pattern  a*2^48 + b*2^32 + c*2^16 + d.       *)
(* The arithmetic of the program is done on this pattern, so that the      *)
(* overflow of an i64 is a state the model reaches.  What an overflowing   *)
(* `+` does depends on the build: with overflow checks (a debug build) it  *)
(* panics, without them (a release build) it wraps around.                 *)
(* A text (&str) is a sequence of one-character strings.                   *)
(***************************************************************************)
EXTENDS Integers, Sequences, FiniteSets, TLC

VARIABLES
    build,   \* "debug" (overflow checks on) or "release" (off)
    text,    \* main: the contents of input.txt (include_str!)
    lines,   \* main: the lines the iterator text.lines() yields
    masses,  \* main: the Vec<Mass> collected so far
    pc,      \* main: "start", "parse", "sum1", "sum2", "done", "panicked"
             \*       ("idle" under FuelSpec)
    taken,   \* main: how many masses the running sum has consumed
    acc,     \* main: the accumulator of the running sum
    out,     \* main: the lines printed on standard output so far
    m0,      \* fuel machine: the mass the methods are applied to
    direct,  \* fuel machine: the Option<Fuel> returned by m0.fuel()
    arg,     \* fuel machine: self.0 of the innermost active total_fuel call
    stack,   \* fuel machine: the `fuel` local of every suspended total_fuel call
    ret,     \* fuel machine: the value returned by the call that returned last
    fpc      \* fuel machine: "start", "call", "ret", "done", "panicked"
             \*               ("idle" under Spec)

vars == <<build, text, lines, masses, pc, taken, acc, out,
          m0, direct, arg, stack, ret, fpc>>
mainVars == <<text, lines, masses, pc, taken, acc, out>>
fuelVars == <<m0, direct, arg, stack, ret, fpc>>

---------------------------------------------------------------------------
(* Bounds of the explored inputs.                                          *)

\* longest input text drawn from Alphabet
MaxLen == 4
\* masses -MaxNeg .. MaxMass are given to the fuel machine
MaxNeg == 12
MaxMass == 130

---------------------------------------------------------------------------
(* Option<T> and Result<T, E>.                                             *)

None == [tag |-> "None"]
Some(x) == [tag |-> "Some", val |-> x]
Ok(x) == [tag |-> "Ok", val |-> x]
Err(kind) == [tag |-> "Err", kind |-> kind]

\* Option::unwrap_or
unwrap_or(opt, default) == IF opt.tag = "Some" THEN opt.val ELSE default

\* Op(x), with x evaluated once, before Op is applied
ByValue(Op(_), x) == CHOOSE y \in {Op(v) : v \in {x}} : TRUE

---------------------------------------------------------------------------
(* i64.                                                                    *)

\* a limb holds 16 bits
Base == 65536

\* the 64-bit patterns
Words == [1..4 -> 0..(Base - 1)]

\* a negative i64 has its top bit set
IsNeg(w) == w[1] >= Base \div 2

\* i64::MIN and i64::MAX
I64Min == <<Base \div 2, 0, 0, 0>>
I64Max == <<Base \div 2 - 1, Base - 1, Base - 1, Base - 1>>

\* i64::wrapping_add: the sum modulo 2^64
wrapping_add(a, b) ==
    LET s4 == a[4] + b[4]
        s3 == a[3] + b[3] + s4 \div Base
        s2 == a[2] + b[2] + s3 \div Base
        s1 == a[1] + b[1] + s2 \div Base
    IN  <<s1 % Base, s2 % Base, s3 % Base, s4 % Base>>

\* whether a + b leaves the range of i64: the operands have the same sign
\* and the wrapped sum has the other one
add_overflows(a, b) ==
    IsNeg(a) = IsNeg(b) /\ IsNeg(wrapping_add(a, b)) # IsNeg(a)

\* i64::wrapping_neg: the two's complement
wrapping_neg(w) ==
    wrapping_add(<<Base - 1 - w[1], Base - 1 - w[2], Base - 1 - w[3], Base - 1 - w[4]>>,
                 <<0, 0, 0, 1>>)

\* the i64 of a small integer literal of the program (|n| < 2^31)
I64(n) ==
    IF n >= 0 THEN <<0, 0, n \div Base, n % Base>>
    ELSE wrapping_neg(<<0, 0, (0 - n) \div Base, (0 - n) % Base>>)

\* i64::wrapping_sub
wrapping_sub(a, b) == wrapping_add(a, wrapping_neg(b))

\* the pattern read as an unsigned number, divided by a small d > 0: long
\* division, limb by limb
udiv(w, d) ==
    LET x2 == (w[1] % d) * Base + w[2]
        x3 == (x2 % d) * Base + w[3]
        x4 == (x3 % d) * Base + w[4]
    IN  <<w[1] \div d, x2 \div d, x3 \div d, x4 \div d>>

\* the remainder of that division
umod(w, d) ==
    LET x2 == (w[1] % d) * Base + w[2]
        x3 == (x2 % d) * Base + w[3]
        x4 == (x3 % d) * Base + w[4]
    IN  x4 % d

\* the pattern read as an unsigned number, times a small k plus a small d:
\* the low 64 bits, and what is carried out of them
umuladd(w, k, d) ==
    LET p4 == w[4] * k + d
        p3 == w[3] * k + p4 \div Base
        p2 == w[2] * k + p3 \div Base
        p1 == w[1] * k + p2 \div Base
    IN  [low |-> <<p1 % Base, p2 % Base, p3 % Base, p4 % Base>>,
         carry |-> p1 \div Base]

\* i64 `/` by a small positive divisor: the quotient is truncated toward
\* zero (the magnitude is divided, the sign restored)
TruncDiv(a, d) ==
    IF IsNeg(a) THEN wrapping_neg(udiv(wrapping_neg(a), d)) ELSE udiv(a, d)

---------------------------------------------------------------------------
(* Arithmetic on the newtypes.                                             *)

\* a variant of FuelAdd that loses its left operand
FuelAdd_KeepsRight(a, b) == b

\* #[derive(Add)] on Fuel: Fuel(a) + Fuel(b) = Fuel(a + b), the i64 `+`.
\* This is the value when the `+` does not panic; AddPanics tells when it does.
FuelAdd(a, b) == wrapping_add(a, b)

\* the i64 `+` panics ("attempt to add with overflow") when the sum
\* overflows and the build checks overflow
AddPanics(a, b, bld) == bld = "debug" /\ add_overflows(a, b)

\* Fuel::mass: x fuel weighs x mass
mass(f) == f

\* a variant of fuel without the test for a negative result
fuel_NoNegativeCheck(m) == Some(wrapping_sub(TruncDiv(m, 3), I64(2)))

\* a variant of fuel that also returns None for a result of zero
fuel_ZeroIsNone(m) ==
    LET result == wrapping_sub(TruncDiv(m, 3), I64(2))
    IN  IF IsNeg(result) \/ result = I64(0) THEN None ELSE Some(result)

\* a variant of fuel that does not subtract 2
fuel_NoSubtract(m) ==
    LET result == TruncDiv(m, 3)
    IN  IF IsNeg(result) THEN None ELSE Some(result)

\* a variant of fuel that divides by 2
fuel_DivTwo(m) ==
    LET result == wrapping_sub(TruncDiv(m, 2), I64(2))
    IN  IF IsNeg(result) THEN None ELSE Some(result)

\* Mass::fuel.  self.0 / 3 lies within i64::MIN/3 .. i64::MAX/3, so the
\* `- 2` cannot overflow in any build.
fuel(m) ==
    LET result == wrapping_sub(TruncDiv(m, 3), I64(2))
    IN  IF IsNeg(result) THEN None ELSE Some(result)

---------------------------------------------------------------------------
(* Text: str::lines, <i64 as FromStr>::from_str and <i64 as Debug>::fmt.   *)

Digits == {"0", "1", "2", "3", "4", "5", "6", "7", "8", "9"}

\* char::to_digit(10) of a decimal digit
DigitVal(c) ==
    CASE c = "0" -> 0 [] c = "1" -> 1 [] c = "2" -> 2 [] c = "3" -> 3
      [] c = "4" -> 4 [] c = "5" -> 5 [] c = "6" -> 6 [] c = "7" -> 7
      [] c = "8" -> 8 [] c = "9" -> 9

\* the character of a digit value
DigitChar(n) ==
    CASE n = 0 -> "0" [] n = 1 -> "1" [] n = 2 -> "2" [] n = 3 -> "3"
      [] n = 4 -> "4" [] n = 5 -> "5" [] n = 6 -> "6" [] n = 7 -> "7"
      [] n = 8 -> "8" [] n = 9 -> "9"

\* one character of i64::from_str: to_digit(10), which fails with
\* InvalidDigit; then result = result.checked_mul(10), and
\* checked_add(digit) for a positive number and checked_sub(digit) for a
\* negative one; a checked operation that fails is PosOverflow, NegOverflow.
\* r is the Result so far, its value the magnitude accumulated; the
\* magnitude may reach 2^63 - 1 for a positive and 2^63 for a negative number.
ParseDigit(r, c, neg) ==
    IF r.tag = "Err" THEN r
    ELSE IF c \notin Digits THEN Err("InvalidDigit")
    ELSE LET p == umuladd(r.val, 10, DigitVal(c))
         IN  IF p.carry = 0 /\ (~IsNeg(p.low) \/ (neg /\ p.low = I64Min))
             THEN Ok(p.low)
             ELSE Err(IF neg THEN "NegOverflow" ELSE "PosOverflow")

\* the loop of i64::from_str over the characters ds[lo] .. ds[hi], from the
\* left, r being the Result before them.  (The range is cut in two halves,
\* the left one done first, which keeps the evaluation shallow.)
RECURSIVE ParseDigits(_, _, _, _, _)
ParseDigits(r, ds, lo, hi, neg) ==
    IF lo = hi THEN ParseDigit(r, ds[lo], neg)
    ELSE LET Right(left) == ParseDigits(left, ds, (lo + hi) \div 2 + 1, hi, neg)
         IN  ByValue(Right, ParseDigits(r, ds, lo, (lo + hi) \div 2, neg))

\* i64::from_str (radix 10): an optional sign, then one or more digits, and
\* nothing else; no white space is skipped; a value outside i64 is an error
parse_i64(s) ==
    IF s = <<>> THEN Err("Empty")
    ELSE IF Len(s) = 1 /\ s[1] \in {"+", "-"} THEN Err("InvalidDigit")
    ELSE LET digits == IF s[1] \in {"+", "-"} THEN Tail(s) ELSE s
             neg == s[1] = "-"
             r == ParseDigits(Ok(I64(0)), digits, 1, Len(digits), neg)
         IN  IF r.tag = "Err" THEN r
             ELSE Ok(IF neg THEN wrapping_neg(r.val) ELSE r.val)

\* the four decimal digits of n < 10000
FourDigits(n) ==
    <<DigitChar(n \div 1000), DigitChar((n \div 100) % 10),
      DigitChar((n \div 10) % 10), DigitChar(n % 10)>>

\* the decimal digits of the pattern read as an unsigned number, none for
\* 0: four digits at a time from the right, the zeros before the first
\* digit left out
RECURSIVE udecimal(_)
call_udecimal[w \in Words] == udecimal(w)
udecimal(w) ==
    IF w[1] = 0 /\ w[2] = 0 /\ w[3] = 0 /\ w[4] < 10000
    THEN SubSeq(FourDigits(w[4]),
                5 - Cardinality({i \in 1..4 : w[4] >= 10 ^ (4 - i)}), 4)
    ELSE call_udecimal[udiv(w, 10000)] \o FourDigits(umod(w, 10000))

\* <i64 as Debug>::fmt: the decimal digits, after a "-" for a negative number
fmt_i64(w) ==
    IF w = <<0, 0, 0, 0>> THEN <<"0">>
    ELSE IF IsNeg(w) THEN <<"-">> \o udecimal(wrapping_neg(w))
    ELSE udecimal(w)

\* a line without its leading and trailing spaces and tabs
Whitespace == {" ", "\t"}
RECURSIVE Trim(_)
Trim(l) ==
    IF l = <<>> THEN l
    ELSE IF l[1] \in Whitespace THEN Trim(Tail(l))
    ELSE IF l[Len(l)] \in Whitespace THEN Trim(SubSeq(l, 1, Len(l) - 1))
    ELSE l

\* a variant of from_str that trims the line before parsing it
from_str_Trims(s) == parse_i64(Trim(s))

\* #[derive(FromStr)] on Mass: the text is parsed as the inner i64, as it
\* is, and the i64 wrapped
from_str(s) == parse_i64(s)

\* the index of the first "\n" of t, 0 when there is none
FirstNewline(t) ==
    IF \E i \in 1..Len(t) : t[i] = "\n"
    THEN CHOOSE i \in 1..Len(t) : t[i] = "\n" /\ \A j \in 1..(i - 1) : t[j] # "\n"
    ELSE 0

\* str::split_inclusive('\n'): the text is cut after every "\n"; a text
\* ending in "\n" has no empty last piece
RECURSIVE split_inclusive(_)
split_inclusive(t) ==
    IF t = <<>> THEN <<>>
    ELSE LET nl == FirstNewline(t)
         IN  IF nl = 0 THEN <<t>>
             ELSE <<SubSeq(t, 1, nl)>> \o split_inclusive(SubSeq(t, nl + 1, Len(t)))

\* what str::lines does to a piece: its "\n" is removed, and then a "\r"
\* that stood before the "\n"; a "\r" that no "\n" follows stays
StripLineEnding(piece) ==
    IF piece # <<>> /\ piece[Len(piece)] = "\n"
    THEN LET l == SubSeq(piece, 1, Len(piece) - 1)
         IN  IF l # <<>> /\ l[Len(l)] = "\r" THEN SubSeq(l, 1, Len(l) - 1) ELSE l
    ELSE piece

\* a variant of str_lines that leaves the empty lines out
str_lines_SkipsEmpty(t) ==
    LET IsValue(l) == l # <<>>
    IN  SelectSeq([i \in 1..Len(split_inclusive(t)) |-> StripLineEnding(split_inclusive(t)[i])],
                  IsValue)

\* str::lines
str_lines(t) ==
    [i \in 1..Len(split_inclusive(t)) |-> StripLineEnding(split_inclusive(t)[i])]

\* println!("Part N answer: {:?}", sum): the text before the value, then
\* the Debug form of the Fuel, Fuel(<decimal digits>)
PrintAnswer(prefix, sum) ==
    [prefix |-> prefix, debug |-> <<"Fuel(">> \o fmt_i64(sum) \o <<")">>]

---------------------------------------------------------------------------
(* Inputs.                                                                 *)

\* with and without overflow checks
Builds == {"debug", "release"}

Alphabet == {"1", "9", "-", " ", "a", "\n"}

\* the lines of the repository's tests as an input text
ExampleText ==
    <<"1", "2", "\n", "1", "4", "\n", "1", "9", "6", "9", "\n", "1",
      "0", "0", "7", "5", "6", "\n">>

\* i64::MAX and the number after it, i64::MIN and the number before it
MaxLine ==
    <<"9", "2", "2", "3", "3", "7", "2", "0", "3", "6", "8", "5",
      "4", "7", "7", "5", "8", "0", "7">>
PastMaxLine ==
    <<"9", "2", "2", "3", "3", "7", "2", "0", "3", "6", "8", "5",
      "4", "7", "7", "5", "8", "0", "8">>
MinLine ==
    <<"-", "9", "2", "2", "3", "3", "7", "2", "0", "3", "6", "8",
      "5", "4", "7", "7", "5", "8", "0", "8">>
PastMinLine ==
    <<"-", "9", "2", "2", "3", "3", "7", "2", "0", "3", "6", "8",
      "5", "4", "7", "7", "5", "8", "0", "9">>

\* texts with the characters Alphabet leaves out, with bad lines in every
\* position, and with masses at and beyond the ends of i64
SampleTexts ==
    { ExampleText,
      SubSeq(ExampleText, 1, Len(ExampleText) - 1),
      ExampleText \o <<"\n">>,
      ExampleText \o <<"\n", "\n">>,
      <<"\t", "1", "2", "\n", "1", "4", "\n">>,
      <<"1", "2", "\t", "\n", "1", "4", "\n">>,
      <<"1", "2", "\n", " ", "1", "4", " ", "\n", "9">>,
      <<"1", "2", "\n", " ", "9", "\n", "1", "4", "\n">>,
      <<"1", "2", "\r", "\n", "1", "4", "\r", "\n">>,
      <<"+", "1", "2", "\n", "-", "7", "\n", "0", "0", "7", "\n">>,
      <<"1", "2", "\n", "a", "b", "c", "\n", "1", "4", "\n">>,
      <<"1", "2", "\n", "1", "4", "\n", "a", "b", "c", "\n">>,
      <<"1", "2", "\n", "+", "\n">>,
      <<"9", "9", "9", "9", "9", "9", "\n", "9", "9", "\n">>,
      MaxLine \o <<"\n">>,
      MinLine \o <<"\n">> \o MaxLine \o <<"\n">>,
      MaxLine \o <<"\n">> \o MaxLine \o <<"\n">>,
      MaxLine \o <<"\n">> \o MaxLine \o <<"\n">> \o MaxLine \o <<"\n">>,
      MaxLine \o <<"\n">> \o MaxLine \o <<"\n">> \o MaxLine \o <<"\n">>
          \o MaxLine \o <<"\n">>,
      <<"1", "2", "\n">> \o PastMaxLine \o <<"\n", "1", "4", "\n">>,
      <<"1", "2", "\n">> \o PastMinLine \o <<"\n">>,
      <<"1", "2", "\n">> \o MaxLine \o <<"0", "\n">> }

Texts == (UNION {[1..n -> Alphabet] : n \in 0..MaxLen}) \cup SampleTexts

\* the masses of the repository's tests
TestMasses == {I64(12), I64(14), I64(1969), I64(100756)}

\* masses at the ends of i64
ExtremeMasses ==
    {I64Max, wrapping_sub(I64Max, I64(1)), wrapping_sub(I64Max, I64(2)),
     I64Min, wrapping_add(I64Min, I64(1)), <<0, 1, 0, 0>>, <<Base - 1, 0, 0, 0>>}

Masses ==
    {I64(n) : n \in (0 - MaxNeg)..MaxMass} \cup TestMasses \cup ExtremeMasses

---------------------------------------------------------------------------
(* Mass::fuel and Mass::total_fuel on one mass.  The recursion of           *)
(* total_fuel is unfolded: Call enters a call, Return leaves one; `stack`  *)
(* holds the `fuel` of every call that waits for its inner call.  main     *)
(* runs the same two actions for every mass of its second sum.             *)

InitFuel ==
    /\ build \in Builds
    /\ m0 \in Masses
    /\ direct = None
    /\ arg = m0
    /\ stack = <<>>
    /\ ret = I64(0)
    /\ fpc = "start"
    /\ text = <<>> /\ lines = <<>> /\ masses = <<>> /\ out = <<>>
    /\ taken = 0 /\ acc = I64(0)
    /\ pc = "idle"

\* Mass(m0).fuel()
CallFuel ==
    /\ fpc = "start"
    /\ direct' = fuel(m0)
    /\ fpc' = "call"
    /\ UNCHANGED <<build, m0, arg, stack, ret>>
    /\ UNCHANGED mainVars

\* total_fuel is entered with self.0 = arg and matches on self.fuel():
\* Some(fuel) keeps `fuel` and calls fuel.mass().total_fuel(); None returns Fuel(0)
Call ==
    /\ fpc = "call"
    /\ \E r \in {fuel(arg)} :
           IF r.tag = "Some"
           THEN /\ stack' = Append(stack, r.val)
                /\ arg' = mass(r.val)
                /\ UNCHANGED <<ret, fpc>>
           ELSE /\ ret' = I64(0)
                /\ fpc' = "ret"
                /\ UNCHANGED <<arg, stack>>
    /\ UNCHANGED <<build, m0, direct>>
    /\ UNCHANGED mainVars

\* a variant of Return that passes the inner value on without adding its own fuel
Return_DropsOwnFuel ==
    /\ fpc = "ret"
    /\ stack # <<>>
    /\ ret' = ret
    /\ stack' = SubSeq(stack, 1, Len(stack) - 1)
    /\ UNCHANGED <<build, m0, direct, arg, fpc>>
    /\ UNCHANGED mainVars

\* the innermost suspended call resumes: it returns fuel + <the value
\* returned to it>; the `+` may panic
Return ==
    /\ fpc = "ret"
    /\ stack # <<>>
    /\ IF AddPanics(stack[Len(stack)], ret, build)
       THEN /\ fpc' = "panicked"
            /\ UNCHANGED <<stack, ret>>
       ELSE /\ ret' = FuelAdd(stack[Len(stack)], ret)
            /\ stack' = SubSeq(stack, 1, Len(stack) - 1)
            /\ fpc' = fpc
    /\ UNCHANGED <<build, m0, direct, arg>>
    /\ UNCHANGED mainVars

\* the outermost call has returned to its caller
Finish ==
    /\ pc = "idle"
    /\ fpc = "ret"
    /\ stack = <<>>
    /\ fpc' = "done"
    /\ UNCHANGED <<build, m0, direct, arg, stack, ret>>
    /\ UNCHANGED mainVars

NextFuel == CallFuel \/ Call \/ Return \/ Finish

FuelSpec == InitFuel /\ [][NextFuel]_vars

\* a call that is running keeps running: the program is single-threaded and
\* nothing suspends it
FairFuelSpec == FuelSpec /\ WF_vars(NextFuel)

---------------------------------------------------------------------------
(* main().                                                                 *)

InitMain ==
    /\ build \in Builds
    /\ text \in Texts
    /\ lines = <<>>
    /\ masses = <<>>
    /\ pc = "start"
    /\ taken = 0
    /\ acc = I64(0)
    /\ out = <<>>
    /\ m0 = I64(0) /\ direct = None /\ arg = I64(0) /\ stack = <<>>
    /\ ret = I64(0)
    /\ fpc = "idle"

\* include_str!("input.txt").lines()
SplitLines ==
    /\ pc = "start"
    /\ lines' = str_lines(text)
    /\ pc' = "parse"
    /\ UNCHANGED <<build, text, masses, taken, acc, out>>
    /\ UNCHANGED fuelVars

\* a variant of ParseLine that takes Mass(0) for a line that does not parse
ParseLine_DefaultsBadLine ==
    /\ pc = "parse"
    /\ Len(masses) < Len(lines)
    /\ \E r \in {from_str(lines[Len(masses) + 1])} :
           masses' = Append(masses, IF r.tag = "Ok" THEN r.val ELSE I64(0))
    /\ UNCHANGED <<build, text, lines, pc, taken, acc, out>>
    /\ UNCHANGED fuelVars

\* one turn of .lines().map(|x| x.parse().expect(..)).collect(): the next
\* line is parsed; Ok pushes the Mass, Err panics
ParseLine ==
    /\ pc = "parse"
    /\ Len(masses) < Len(lines)
    /\ \E r \in {from_str(lines[Len(masses) + 1])} :
           IF r.tag = "Ok"
           THEN /\ masses' = Append(masses, r.val)
                /\ pc' = pc
           ELSE /\ masses' = masses
                /\ pc' = "panicked"
    /\ UNCHANGED <<build, text, lines, taken, acc, out>>
    /\ UNCHANGED fuelVars

\* the line iterator is exhausted: collect() returns the Vec, and the first
\* sum starts from Fuel(0)
Collected ==
    /\ pc = "parse"
    /\ Len(masses) = Len(lines)
    /\ pc' = "sum1"
    /\ taken' = 0
    /\ acc' = I64(0)
    /\ UNCHANGED <<build, text, lines, masses, out>>
    /\ UNCHANGED fuelVars

\* one turn of masses.iter().map(|m| m.fuel().unwrap_or(Fuel(0))).sum():
\* the next item is added to the accumulator; the `+` may panic
SumPart1 ==
    /\ pc = "sum1"
    /\ taken < Len(masses)
    /\ \E item \in {unwrap_or(fuel(masses[taken + 1]), I64(0))} :
           IF AddPanics(acc, item, build)
           THEN /\ pc' = "panicked"
                /\ UNCHANGED <<taken, acc>>
           ELSE /\ acc' = FuelAdd(acc, item)
                /\ taken' = taken + 1
                /\ pc' = pc
    /\ UNCHANGED <<build, text, lines, masses, out>>
    /\ UNCHANGED fuelVars

\* the first println!; the second sum starts from Fuel(0)
PrintPart1 ==
    /\ pc = "sum1"
    /\ taken = Len(masses)
    /\ out' = Append(out, PrintAnswer("Part 1 answer: ", acc))
    /\ pc' = "sum2"
    /\ taken' = 0
    /\ acc' = I64(0)
    /\ UNCHANGED <<build, text, lines, masses>>
    /\ UNCHANGED fuelVars

\* one turn of masses.iter().map(|m| m.total_fuel()).sum() calls
\* total_fuel on the next mass; Call and Return carry the call out
CallTotalFuel ==
    /\ pc = "sum2"
    /\ taken < Len(masses)
    /\ fpc = "idle"
    /\ arg' = masses[taken + 1]
    /\ stack' = <<>>
    /\ fpc' = "call"
    /\ UNCHANGED <<build, m0, direct, ret>>
    /\ UNCHANGED mainVars

\* a variant of SumPart2 that keeps the last item in place of the sum
SumPart2_KeepsLastItem ==
    /\ pc = "sum2"
    /\ fpc = "ret"
    /\ stack = <<>>
    /\ acc' = ret
    /\ taken' = taken + 1
    /\ fpc' = "idle"
    /\ UNCHANGED <<build, text, lines, masses, pc, out>>
    /\ UNCHANGED <<m0, direct, arg, stack, ret>>

\* total_fuel has returned to the sum, which adds the item to the
\* accumulator; the `+` may panic
SumPart2 ==
    /\ pc = "sum2"
    /\ fpc = "ret"
    /\ stack = <<>>
    /\ IF AddPanics(acc, ret, build)
       THEN /\ pc' = "panicked"
            /\ UNCHANGED <<taken, acc, fpc>>
       ELSE /\ acc' = FuelAdd(acc, ret)
            /\ taken' = taken + 1
            /\ fpc' = "idle"
            /\ pc' = pc
    /\ UNCHANGED <<build, text, lines, masses, out>>
    /\ UNCHANGED <<m0, direct, arg, stack, ret>>

\* the second println!, after which main returns
PrintPart2 ==
    /\ pc = "sum2"
    /\ taken = Len(masses)
    /\ fpc = "idle"
    /\ out' = Append(out, PrintAnswer("Part 2 answer: ", acc))
    /\ pc' = "done"
    /\ UNCHANGED <<build, text, lines, masses, taken, acc>>
    /\ UNCHANGED fuelVars

NextMain ==
    \/ SplitLines \/ ParseLine \/ Collected
    \/ SumPart1 \/ PrintPart1
    \/ CallTotalFuel \/ Call \/ Return \/ SumPart2 \/ PrintPart2

Spec == InitMain /\ [][NextMain]_vars

---------------------------------------------------------------------------
(* Properties of Mass::fuel and Mass::total_fuel (FuelSpec).               *)

\* a < b and a <= b as signed numbers
Lt(a, b) ==
    IF IsNeg(a) # IsNeg(b) THEN IsNeg(a)
    ELSE \E i \in 1..4 : a[i] < b[i] /\ \A j \in 1..(i - 1) : a[j] = b[j]
Le(a, b) == a = b \/ Lt(a, b)

\* the largest quotient of an i64 by 3: i64::MAX / 3
QuotientMax == <<10922, 43690, 43690, 43690>>

\* q is m / 3 rounded toward zero: q has the sign of m, and m - 3q is one
\* of 0, 1, 2 for m >= 0 and one of 0, -1, -2 for m < 0.  (3q is computed
\* without wrapping, q lying between -QuotientMax and QuotientMax.)
IsQuotientOf3(m, q) ==
    /\ Le(wrapping_neg(QuotientMax), q) /\ Le(q, QuotientMax)
    /\ IF IsNeg(m)
       THEN /\ Le(q, I64(0))
            /\ wrapping_sub(m, wrapping_add(q, wrapping_add(q, q)))
                   \in {I64(0), I64(-1), I64(-2)}
       ELSE /\ Le(I64(0), q)
            /\ wrapping_sub(m, wrapping_add(q, wrapping_add(q, q)))
                   \in {I64(0), I64(1), I64(2)}

\* one more term of the chain f1 = fuel(m), f2 = fuel(f1), ...: its last
\* term so far, the sum of its terms, and whether the sum left i64.  A
\* chain whose next term is absent has ended, and stays as it is.
ChainStep(c) ==
    LET r == fuel(c.last)
    IN  IF r.tag = "None" THEN c
        ELSE [last |-> r.val,
              val |-> wrapping_add(c.val, r.val),
              over |-> c.over \/ add_overflows(c.val, r.val)]

\* n more terms, taken half by half
RECURSIVE ChainSteps(_, _)
ChainSteps(c, n) ==
    IF n = 1 THEN ChainStep(c)
    ELSE LET Rest(half) == IF fuel(half.last).tag = "None" THEN half
                           ELSE ChainSteps(half, n - n \div 2)
         IN  ByValue(Rest, ChainSteps(c, n \div 2))

\* the sum of the chain f1 = fuel(m), f2 = fuel(f1), ... up to the first
\* absent term.  A term is less than a third of the one before it, so the
\* chain of an i64 has fewer than 64 terms.
ChainSum(m) == ChainSteps([last |-> m, val |-> I64(0), over |-> FALSE], 64)

\* C1: for every signed mass m, fuel() returns Some(Fuel(m/3 - 2)), the
\* division truncated toward zero, when m/3 - 2 >= 0 and None when it is
\* negative; it never returns Some of a negative Fuel; fuel(12) = Some(2),
\* fuel(14) = Some(2), fuel(1969) = Some(654), fuel(100756) = Some(33583).
C1_FuelFormula ==
    fpc # "start" =>
        /\ \A q \in {TruncDiv(m0, 3)} :
               /\ IsQuotientOf3(m0, q)
               /\ (Le(I64(0), wrapping_sub(q, I64(2))) =>
                       direct = Some(wrapping_sub(q, I64(2))))
               /\ (Lt(wrapping_sub(q, I64(2)), I64(0)) => direct = None)
        /\ (direct.tag = "Some" => Le(I64(0), direct.val))
        /\ (m0 = I64(12) => direct = Some(I64(2)))
        /\ (m0 = I64(14) => direct = Some(I64(2)))
        /\ (m0 = I64(1969) => direct = Some(I64(654)))
        /\ (m0 = I64(100756) => direct = Some(I64(33583)))

C1_Witness == fpc # "start" /\ m0 = I64(100756) /\ direct = Some(I64(33583))

\* C2 as stated: for every mass m with 0 <= m < 9, fuel() returns None.
C2_NoneBelowNine ==
    (fpc # "start" /\ m0 \in {I64(n) : n \in 0..8}) => direct = None

\* C2 amended: fuel() returns None for every mass m with 0 <= m < 6, and
\* Some(Fuel(0)) for m = 6, 7 and 8.
C2_NoneBelowSix ==
    fpc # "start" =>
        /\ (m0 \in {I64(n) : n \in 0..5} => direct = None)
        /\ (m0 \in {I64(n) : n \in 6..8} => direct = Some(I64(0)))

C2_Witness == fpc # "start" /\ m0 = I64(8) /\ direct = Some(I64(0))

\* C3: total_fuel(m) is Fuel(0) when fuel(m) is None and f + total_fuel(f)
\* when fuel(m) is Some(f): every call returns the sum of the chain of
\* fuels of its mass, taken until fuel is absent, and no `+` of the
\* recursion overflows in any build;
\* total_fuel(14) = 2, total_fuel(1969) = 966, total_fuel(100756) = 50346.
C3_TotalFuelIsChainSum ==
    /\ fpc # "panicked"
    /\ fpc \in {"ret", "done"} =>
        \A chain \in {ChainSum(IF stack = <<>> THEN m0 ELSE mass(stack[Len(stack)]))} :
            /\ ~chain.over
            /\ ret = chain.val
    /\ fpc = "done" =>
        /\ (direct = None => ret = I64(0))
        /\ (direct.tag = "Some" =>
                \A rest \in {ChainSum(mass(direct.val))} :
                    /\ ~add_overflows(direct.val, rest.val)
                    /\ ret = wrapping_add(direct.val, rest.val))
        /\ (m0 = I64(14) => ret = I64(2))
        /\ (m0 = I64(1969) => ret = I64(966))
        /\ (m0 = I64(100756) => ret = I64(50346))

C3_Witness == fpc = "done" /\ m0 = I64(1969) /\ Len(stack) = 0 /\ ret = I64(966)

\* C4: total_fuel terminates: every recursive call is made on a mass that
\* is non-negative and strictly smaller than the caller's, and the
\* outermost call returns.
C4_Terminates ==
    /\ [][(fpc = "call" /\ fpc' = "call") => (~IsNeg(arg') /\ Lt(arg', arg))]_vars
    /\ <>(fpc = "done")

C4_Witness == fpc = "call" /\ ~IsNeg(m0) /\ Len(stack) >= 3 /\ Lt(arg, m0)

\* C5: for every mass m >= 0, total_fuel(m) >= fuel(m).unwrap_or(Fuel(0)).
C5_TotalAtLeastDirect ==
    (fpc = "done" /\ ~IsNeg(m0)) => Le(unwrap_or(direct, I64(0)), ret)

C5_Witness ==
    fpc = "done" /\ ~IsNeg(m0) /\ direct.tag = "Some" /\ Lt(direct.val, ret)

\* C10: for every signed mass m, 0 <= total_fuel(m) and
\* 2 * total_fuel(m) <= max(m, 0); so total_fuel(m) = 0 for m < 0.
C10_TotalAtMostHalf ==
    fpc = "done" =>
        /\ Le(I64(0), ret)
        /\ ~add_overflows(ret, ret)
        /\ Le(wrapping_add(ret, ret), IF Lt(I64(0), m0) THEN m0 ELSE I64(0))
        /\ (IsNeg(m0) => ret = I64(0))

C10_Witness ==
    /\ fpc = "done"
    /\ m0 = I64Max
    /\ Lt(I64(0), ret)
    /\ Le(wrapping_add(ret, ret), m0)

---------------------------------------------------------------------------
(* Properties of main (Spec).                                              *)

\* the lines of the input, and whether one of them is no i64
InputLines == str_lines(text)
HasBadLine == \E i \in 1..Len(InputLines) : parse_i64(InputLines[i]).tag = "Err"

\* the masses of an input all of whose lines parse
ParsedMasses == [i \in 1..Len(InputLines) |-> parse_i64(InputLines[i]).val]

\* the fuels the two sums add up
DirectFuels(ms) == [i \in 1..Len(ms) |-> unwrap_or(fuel(ms[i]), I64(0))]
TotalFuels(ms) == [i \in 1..Len(ms) |-> ChainSum(ms[i]).val]

\* the sum of the first n of fs, modulo 2^64, and whether a partial sum
\* leaves i64
RECURSIVE SumOf(_, _)
SumOf(fs, n) ==
    IF n = 0 THEN [val |-> I64(0), over |-> FALSE]
    ELSE LET Plus(s) == [val |-> wrapping_add(s.val, fs[n]),
                         over |-> s.over \/ add_overflows(s.val, fs[n])]
         IN  ByValue(Plus, SumOf(fs, n - 1))

\* C6: if a line of the input does not parse as an integer, wherever it
\* stands and however many valid lines precede it, nothing is ever
\* printed: the run never gets past parsing.
C6_NoOutputOnBadLine ==
    HasBadLine => (out = <<>> /\ pc \in {"start", "parse", "panicked"})

C6_Witness ==
    /\ pc = "panicked"
    /\ out = <<>>
    /\ Len(masses) >= 1
    /\ Len(masses) + 1 < Len(InputLines)

\* C7 as stated: when every line parses, the run prints the Part 1 total,
\* then the Part 2 total, and then ends: Part 1 is the sum of
\* fuel(m).unwrap_or(0) and Part 2 the sum of total_fuel(m) over the masses.
C7_TwoTotalsAlways ==
    ~HasBadLine =>
        \A ms \in {ParsedMasses} :
        \A s1 \in {SumOf(DirectFuels(ms), Len(ms))} :
        \A s2 \in {SumOf(TotalFuels(ms), Len(ms))} :
        \A p1 \in {PrintAnswer("Part 1 answer: ", s1.val)} :
        \A p2 \in {PrintAnswer("Part 2 answer: ", s2.val)} :
            /\ pc \in {"start", "parse", "sum1", "sum2", "done"}
            /\ pc \in {"start", "parse", "sum1"} => out = <<>>
            /\ pc = "sum2" => (out = <<p1>> /\ ~s1.over)
            /\ pc = "done" => (out = <<p1, p2>> /\ ~s1.over /\ ~s2.over)

\* C7 amended: when every line parses and neither sum leaves the range of
\* i64, the run prints the Part 1 total, then the Part 2 total, and then
\* ends: Part 1 is the sum of fuel(m).unwrap_or(0) and Part 2 the sum of
\* total_fuel(m) over the masses; they are 34241 and 51316 for the lines
\* 12, 14, 1969, 100756.
C7_TwoTotalsInOrder ==
    ~HasBadLine =>
        \A ms \in {ParsedMasses} :
        \A s1 \in {SumOf(DirectFuels(ms), Len(ms))} :
        \A s2 \in {SumOf(TotalFuels(ms), Len(ms))} :
        \A p1 \in {PrintAnswer("Part 1 answer: ", s1.val)} :
        \A p2 \in {PrintAnswer("Part 2 answer: ", s2.val)} :
            (~s1.over /\ ~s2.over) =>
                /\ pc \in {"start", "parse", "sum1", "sum2", "done"}
                /\ fpc # "panicked"
                /\ pc \in {"start", "parse", "sum1"} => out = <<>>
                /\ pc = "sum2" => out = <<p1>>
                /\ pc = "done" => out = <<p1, p2>>
                /\ pc # "done" => ENABLED NextMain
                /\ text = ExampleText =>
                       /\ p1.debug = <<"Fuel(", "3", "4", "2", "4", "1", ")">>
                       /\ p2.debug = <<"Fuel(", "5", "1", "3", "1", "6", ")">>

C7_Witness ==
    /\ pc = "done"
    /\ text = ExampleText
    /\ masses = <<I64(12), I64(14), I64(1969), I64(100756)>>
    /\ Len(out) = 2
    /\ out[1] = PrintAnswer("Part 1 answer: ", I64(34241))
    /\ out[2] = PrintAnswer("Part 2 answer: ", I64(51316))

\* a line that is a valid integer with spaces or tabs before or after it
IsPaddedInteger(l) == Trim(l) # l /\ parse_i64(Trim(l)).tag = "Ok"

\* C8 as stated: a line that is a valid integer with leading or trailing
\* spaces or tabs is accepted and gives the Mass of the line without them.
C8_PaddedLineAccepted ==
    \A i \in 1..Len(InputLines) :
        IsPaddedInteger(InputLines[i]) =>
            /\ ~(pc = "panicked" /\ Len(masses) + 1 = i)
            /\ (i <= Len(masses) => masses[i] = parse_i64(Trim(InputLines[i])).val)

\* C8 amended: lines are parsed as they are, without trimming: a line that
\* is a valid integer with leading or trailing spaces or tabs fails to
\* parse, so the run aborts at that line and prints nothing.
C8_PaddedLineRejected ==
    \A i \in 1..Len(InputLines) :
        IsPaddedInteger(InputLines[i]) =>
            /\ Len(masses) < i
            /\ pc \in {"start", "parse", "panicked"}
            /\ out = <<>>

C8_Witness ==
    /\ pc = "panicked"
    /\ Len(masses) >= 1
    /\ IsPaddedInteger(InputLines[Len(masses) + 1])
    /\ parse_i64(Trim(InputLines[Len(masses) + 1])).val = I64(9)

\* the text is lines of digits, each ended by "\n", and then n more "\n"
IsValueLines(t) ==
    /\ t # <<>>
    /\ t[Len(t)] = "\n"
    /\ \A i \in 1..Len(t) :
           /\ t[i] \in Digits \cup {"\n"}
           /\ t[i] = "\n" => (i > 1 /\ t[i - 1] \in Digits)
EndsWithEmptyLines(t, n) ==
    /\ n >= 1
    /\ Len(t) > n
    /\ \A i \in (Len(t) - n + 1)..Len(t) : t[i] = "\n"
    /\ IsValueLines(SubSeq(t, 1, Len(t) - n))

\* C9 as stated: an input that ends with one or more empty lines after its
\* last value parses without error, to the masses of the input without them.
C9_TrailingEmptyLinesIgnored ==
    \A n \in 1..Len(text) :
        EndsWithEmptyLines(text, n) =>
            /\ pc # "panicked"
            /\ (pc \in {"sum1", "sum2", "done"} =>
                    masses = [i \in 1..Len(str_lines(SubSeq(text, 1, Len(text) - n))) |->
                                  parse_i64(str_lines(SubSeq(text, 1, Len(text) - n))[i]).val])

\* C9 amended: only the newline that ends the last value is absorbed: the
\* text with it and the text without it have the same lines.  Every
\* further trailing newline makes an empty line, which is parsed like any
\* line and is no integer, so the run aborts and prints nothing.
C9_TrailingEmptyLineAborts ==
    /\ IsValueLines(text) =>
           /\ str_lines(text) = str_lines(SubSeq(text, 1, Len(text) - 1))
           /\ \A i \in 1..Len(InputLines) : InputLines[i] # <<>>
    /\ \A n \in 1..Len(text) :
           EndsWithEmptyLines(text, n) =>
               /\ pc \in {"start", "parse", "panicked"}
               /\ Len(masses) <= Len(str_lines(SubSeq(text, 1, Len(text) - n)))
               /\ out = <<>>

C9_Witness ==
    /\ pc = "panicked"
    /\ EndsWithEmptyLines(text, 2)
    /\ Len(masses) = 4
    /\ InputLines[Len(masses) + 1] = <<>>

===========================================================================
